---- MODULE Spec2Model ----
(***************************************************************************)
(* Vayu web app: the ShoppingCart checkout flow (shopping-cart.tsx), the   *)
(* timer-driven DeliveryAnimation (delivery-animation.tsx) and the         *)
(* telemetry-driven DeliveryAnimation (the second DeliveryAnimation.tsx).  *)
(*                                                                         *)
(* React is modelled as it schedules the code: an event handler or a       *)
(* callback sets state; the effects whose dependencies changed run in a    *)
(* later commit step (cleanup of the previous run first), and other events *)
(* may be delivered between the two.  Updates made in one callback are     *)
(* batched (React 18, which the "use client" directive implies).           *)
(*                                                                         *)
(* Numbers.  L.LatLng objects are pairs of integers on a grid; the points  *)
(* of a path and dronePosition of the timer variant are fixed-point pairs  *)
(* with Scale(steps) sub-units per grid unit, which makes the Bezier       *)
(* samples exact.  TLC integers are 32 bit, the grid is chosen to fit.     *)
(***************************************************************************)
EXTENDS Integers, Sequences, FiniteSets, TLC

\* ---------------------------------------------------------------- bounds
MaxClicks == 2        \* clicks on Place Order / Test Drone in one behaviour
FairClicks == 1       \* the same, in the specification with fairness
MaxTicks == 60        \* the callbacks of one interval are counted up to this many
MaxQty == 3           \* quantity of one product, in the cart and on its card
MaxSteps == 3         \* getCurvedLinePoints is called with 1..MaxSteps steps, and with CURVE_STEPS

\* ------------------------------------------------------ program constants
STORE_COORDS == <<1307, 7754>>            \* [13.069768, 77.541407] on the 0.01 degree grid
USER_COORDS_FOR_TESTING == <<1297, 7769>> \* [12.9716, 77.6946]
DELIVERY_TIME_SECONDS == 25
CURVE_STEPS == 50
TestLat == 9479                           \* 47.396831 on the 0.005 degree grid
TestLng == 1709                           \* 8.546584

NoLoc == <<>>         \* null for a coordinate, a point or a path
NoId == 0             \* null for a timer or socket reference
NoError == "null"     \* null for an error message

\* ------------------------------------------------------------ arithmetic
Min(a, b) == IF a <= b THEN a ELSE b
Max(a, b) == IF a >= b THEN a ELSE b
Abs(a) == IF a < 0 THEN 0 - a ELSE a
CeilDiv(a, b) == (a + b - 1) \div b

\* Sub-units per grid unit of a path sampled in `steps` steps: the control
\* point has denominator 50 (1/2 and 0.12 = 6/50), t*t has steps*steps.
Scale(steps) == 50 * steps * steps

\* A grid coordinate as a fixed-point point of the timer variant.
ToPoint(ll) == <<ll[1] * Scale(CURVE_STEPS), ll[2] * Scale(CURVE_STEPS)>>

\* isFinite: NaN is the one non-finite number of the model.
NaN == 0 - 999999999
IsFinite(x) == x # NaN

\* ---------------------------------------------------------- path planner
\* One coordinate of the quadratic Bezier sample i of `steps`, in
\* Scale(steps) sub-units: ((1-t)^2 s + 2(1-t)t c + t^2 e) with t = i/steps and
\* c = (s + e)/2 + 0.12 * off, all multiplied by 50 * steps^2.
BezierCoord(s, e, off, i, steps) ==
  IF IsFinite(s) /\ IsFinite(e) /\ IsFinite(off)
  THEN (steps - i) * (steps - i) * 50 * s
       + 2 * (steps - i) * i * (25 * (s + e) + 6 * off)
       + i * i * 50 * e
  ELSE NaN

Diff(a, b) == IF IsFinite(a) /\ IsFinite(b) THEN a - b ELSE NaN
Fixed(x, steps) == IF IsFinite(x) THEN x * Scale(steps) ELSE NaN

\* A planner that samples t < 1 only and never appends the end point.
getCurvedLinePointsOpenEnded(start, end, steps) ==
  LET latOffset == Diff(end[2], start[2])
      lngOffset == Diff(start[1], end[1])
      sample(i) == <<BezierCoord(start[1], end[1], latOffset, i, steps),
                     BezierCoord(start[2], end[2], lngOffset, i, steps)>>
      all == [k \in 1..steps |-> sample(k - 1)]
      ok(pt) == IsFinite(pt[1]) /\ IsFinite(pt[2])
  IN SelectSeq(all, ok)

getCurvedLinePoints(start, end, steps) ==
  LET latOffset == Diff(end[2], start[2])
      lngOffset == Diff(start[1], end[1])
      sample(i) == <<BezierCoord(start[1], end[1], latOffset, i, steps),
                     BezierCoord(start[2], end[2], lngOffset, i, steps)>>
      all == [k \in 1..(steps + 1) |-> sample(k - 1)]
      ok(pt) == IsFinite(pt[1]) /\ IsFinite(pt[2])
      points == SelectSeq(all, ok)
      endPt == <<Fixed(end[1], steps), Fixed(end[2], steps)>>
      startPt == <<Fixed(start[1], steps), Fixed(start[2], steps)>>
  IN IF Len(points) > 0
     THEN IF points[Len(points)] # endPt /\ ok(endPt)
          THEN Append(points, endPt)
          ELSE points
     ELSE IF ok(endPt)
          THEN (IF ok(startPt) THEN <<startPt>> ELSE <<>>) \o <<endPt>>
          ELSE points

\* ---------------------------------------------------------------- distance
\* Math.sqrt on non-negative integers, rounded down.
RECURSIVE SqrtSearch(_, _, _)
SqrtSearch(q, lo, hi) ==
  IF lo >= hi THEN lo
  ELSE LET mid == (lo + hi + 1) \div 2
       IN IF mid * mid <= q THEN SqrtSearch(q, mid, hi) ELSE SqrtSearch(q, lo, mid - 1)

Sqrt(q) == SqrtSearch(q, 0, Min(q, 46340))

\* distanceMeters on the 0.005 degree grid of the telemetry variant, in
\* decimetres: one grid unit is 0.005 * 111320 m = 5566 dm of latitude and
\* 0.005 * 100000 m = 5000 dm of longitude.
distanceMeters(a, b) ==
  LET dlat == (b[1] - a[1]) * 5566
      dlon == (b[2] - a[2]) * 5000
  IN Sqrt(dlat * dlat + dlon * dlon)

\* A progress that is not clamped to 100.
TelemetryProgressUnclamped(distanceFromStart, total) ==
  Max(0, (distanceFromStart * 100) \div Max(total, 10))

\* Math.max(0, Math.min(100, distanceFromStart / Math.max(totalDistance, 1) * 100)),
\* rounded down to a whole percent (1 m = 10 dm).
TelemetryProgress(distanceFromStart, total) ==
  Max(0, Min(100, (distanceFromStart * 100) \div Max(total, 10)))

VARIABLES
  variant,            \* which DeliveryAnimation file is the imported component
  geoSupported,       \* navigator.geolocation is present
  \* ShoppingCart
  checkoutStep, committedStep, orderError, deliveryStatus, wsRef,
  calls, nextCall,    \* handleCheckout / handleTestDrone invocations in flight
  \* browser resources
  sockets,            \* WebSockets that still have an event to deliver, by id
  timers,             \* scheduled intervals, by id
  \* DeliveryAnimation (both variants)
  mounted, geoPending,
  progress, dronePosition, estimatedTime, currentUserLocation, locationError,
  isLocating, isAnimating, statusText, deliveryPathPoints, intervalRef,
  pathEffectDue, animEffectDue, animCleanup,
  droneInitialLocation, wsConnected, animWsRef, pathLine, totalDistance,
  telemetryEffectDue, telemetryCleanup,
  \* history
  ticks,              \* callbacks run by the interval of the current animation effect run
  elapsed,            \* milliseconds since that interval was started, at its last callback
  cleanedMid,         \* an effect cleanup ran after 0 < k < N ticks of its interval
  lateTick,           \* an interval callback ran after the cleanup of its effect run
  frameSeq,           \* flips whenever a listener has processed a frame
  sessions,           \* delivery views entered so far
  clickQueried,       \* the click behind the delivery view about to mount queried the position
  sentTarget,         \* target of the trigger request behind a session whose destination is not set yet
  \* one call of getCurvedLinePoints
  planStart, planEnd, planSteps, planPoints, planCalled,
  \* Marketplace and its ProductCards
  cartItems,          \* the cartItems state of Marketplace: [id, quantity] records
  quantity            \* the quantity state of the ProductCard of each product

cartVars == <<checkoutStep, committedStep, orderError, deliveryStatus, wsRef, calls, nextCall>>
planVars == <<planStart, planEnd, planSteps, planPoints, planCalled>>
\* What no step of the checkout flow changes: the platform, and the state of
\* the parts of the program that are specified on their own.
marketVars == <<cartItems, quantity>>
envVars == <<variant, geoSupported, planVars, marketVars>>
resVars == <<sockets, timers>>
timerDaVars == <<estimatedTime, isLocating, isAnimating, deliveryPathPoints, intervalRef,
                 pathEffectDue, animEffectDue, animCleanup, geoPending>>
telDaVars == <<droneInitialLocation, wsConnected, animWsRef, pathLine, totalDistance,
               telemetryEffectDue, telemetryCleanup>>
sharedDaVars == <<mounted, progress, dronePosition, currentUserLocation, locationError, statusText>>
histVars == <<ticks, elapsed, cleanedMid, lateTick, frameSeq, sessions, clickQueried, sentTarget>>
monVars == <<cleanedMid, lateTick, frameSeq, sessions, clickQueried, sentTarget>>
vars == <<envVars, cartVars, resVars, timerDaVars, telDaVars, sharedDaVars, histVars>>

\* ------------------------------------------------------------- WebSocket
\* readyState and the events still owed to the handlers:
\*   connecting, open          as in the browser
\*   closing                   close() was called on an open socket: close event owed
\*   failing                   close() was called while connecting: error, then close event owed
\*   errored                   the error event was delivered: close event owed
\* A socket leaves `sockets` when its close event has been delivered.
NewSocket(owner, inst, cUser, cInit, cTotal) ==
  [owner |-> owner, inst |-> inst, state |-> "connecting",
   cUser |-> cUser, cInit |-> cInit, cTotal |-> cTotal, initialPositionSet |-> FALSE]

AddSock(socks, id, rec) ==
  [i \in DOMAIN socks \cup {id} |-> IF i = id THEN rec ELSE socks[i]]

\* ws.close()
CloseSock(socks, id) ==
  IF id \in DOMAIN socks
  THEN [socks EXCEPT ![id].state = CASE @ = "connecting" -> "failing"
                                     [] @ = "open" -> "closing"
                                     [] OTHER -> @]
  ELSE socks

RemoveSock(socks, id) == [i \in DOMAIN socks \ {id} |-> socks[i]]

\* The smallest positive identifier that is not in use.
FreshId(used) == CHOOSE i \in 1..(Cardinality(used) + 1) :
                   i \notin used /\ \A j \in 1..(i - 1) : j \in used

\* Sockets whose remaining events run no code that sets state are dropped
\* from the model: a ShoppingCart socket that only owes its close event
\* (onclose logs), and a closed socket of a DeliveryAnimation instance that
\* is no longer mounted (its setters do nothing).  inst is the mounted
\* instance.
Settled(sk, inst) ==
  \/ sk.owner = "cart" /\ sk.state \in {"closing", "errored"}
  \/ sk.owner = "anim" /\ sk.inst # inst /\ sk.state \in {"closing", "failing", "errored"}

Pending(socks, inst) ==
  LET keep == {i \in DOMAIN socks : ~Settled(socks[i], inst)}
  IN [i \in keep |-> socks[i]]

\* A clearInterval that leaves the interval scheduled.
ClearTimerNoop(tms, id) == tms

\* clearInterval(id)
ClearTimer(tms, id) == [i \in DOMAIN tms \ {id} |-> tms[i]]

\* History: the cleanup of the effect run that started interval id has run.
MarkCleaned(tms, id) ==
  IF id \in DOMAIN tms THEN [tms EXCEPT ![id].cleaned = TRUE] ELSE tms

Empty == [i \in {} |-> 0]

\* Coordinates the platform geolocation query can report (0.01 degree grid).
UserLocs == {USER_COORDS_FOR_TESTING, STORE_COORDS}

\* ------------------------------------------- DeliveryAnimation: lifecycle
\* useState initial values of the timer variant; the telemetry variant
\* starts with dronePosition null and has no isLocating state.
FreshDA ==
  /\ progress' = 0
  /\ dronePosition' = IF variant = "timer" THEN ToPoint(STORE_COORDS) ELSE NoLoc
  /\ estimatedTime' = DELIVERY_TIME_SECONDS * 1000
  /\ currentUserLocation' = NoLoc
  /\ locationError' = NoError
  /\ isLocating' = (variant = "timer")
  /\ isAnimating' = FALSE
  /\ statusText' = <<"Preparing...">>
  /\ deliveryPathPoints' = NoLoc
  /\ intervalRef' = NoId
  /\ pathEffectDue' = FALSE /\ animEffectDue' = FALSE /\ animCleanup' = NoId
  /\ droneInitialLocation' = NoLoc
  /\ wsConnected' = FALSE
  /\ animWsRef' = NoId
  /\ pathLine' = NoLoc
  /\ totalDistance' = 0
  /\ telemetryEffectDue' = FALSE /\ telemetryCleanup' = FALSE
  /\ ticks' = 0 /\ elapsed' = 0

\* A first commit whose unsupported branch forgets setIsLocating(false).
MountTimerDAStillLocating(inst) ==
  /\ progress' = 0
  /\ dronePosition' = ToPoint(STORE_COORDS)
  /\ estimatedTime' = DELIVERY_TIME_SECONDS * 1000
  /\ currentUserLocation' = NoLoc
  /\ IF geoSupported
     THEN /\ geoPending' = geoPending \cup {inst}
          /\ locationError' = NoError
          /\ isLocating' = TRUE
          /\ statusText' = <<"Preparing...">>
     ELSE /\ geoPending' = geoPending
          /\ locationError' = "Geolocation is not supported by your browser."
          /\ isLocating' = TRUE
          /\ statusText' = <<"Geolocation Error">>
  /\ isAnimating' = FALSE
  /\ deliveryPathPoints' = NoLoc
  /\ intervalRef' = NoId
  /\ pathEffectDue' = ~geoSupported
  /\ animEffectDue' = FALSE /\ animCleanup' = NoId
  /\ droneInitialLocation' = NoLoc /\ wsConnected' = FALSE /\ animWsRef' = NoId
  /\ pathLine' = NoLoc /\ totalDistance' = 0
  /\ telemetryEffectDue' = FALSE /\ telemetryCleanup' = FALSE
  /\ ticks' = 0 /\ elapsed' = 0

\* First commit of the timer variant: the geolocation effect, then the path
\* effect and the animation effect, both with currentUserLocation = null.
MountTimerDA(inst) ==
  /\ progress' = 0
  /\ dronePosition' = ToPoint(STORE_COORDS)
  /\ estimatedTime' = DELIVERY_TIME_SECONDS * 1000
  /\ currentUserLocation' = NoLoc
  /\ IF geoSupported
     THEN /\ geoPending' = geoPending \cup {inst}
          /\ locationError' = NoError
          /\ isLocating' = TRUE
          /\ statusText' = <<"Preparing...">>
     ELSE /\ geoPending' = geoPending
          /\ locationError' = "Geolocation is not supported by your browser."
          /\ isLocating' = FALSE
          /\ statusText' = <<"Geolocation Error">>
  /\ isAnimating' = FALSE
  /\ deliveryPathPoints' = NoLoc
  /\ intervalRef' = NoId
  /\ pathEffectDue' = ~geoSupported
  /\ animEffectDue' = FALSE /\ animCleanup' = NoId
  /\ droneInitialLocation' = NoLoc /\ wsConnected' = FALSE /\ animWsRef' = NoId
  /\ pathLine' = NoLoc /\ totalDistance' = 0
  /\ telemetryEffectDue' = FALSE /\ telemetryCleanup' = FALSE
  /\ ticks' = 0 /\ elapsed' = 0

\* First commit of the telemetry variant: the destination effect sets the
\* hardcoded test location; the telemetry effect sees currentUserLocation =
\* null and returns, and is due again because its dependency changed.
MountTelemetryDA ==
  /\ progress' = 0
  /\ dronePosition' = NoLoc
  /\ estimatedTime' = DELIVERY_TIME_SECONDS * 1000
  /\ currentUserLocation' = <<TestLat, TestLng>>
  /\ locationError' = NoError
  /\ isLocating' = FALSE
  /\ isAnimating' = FALSE
  /\ statusText' = <<"Getting drone location...">>
  /\ deliveryPathPoints' = NoLoc
  /\ intervalRef' = NoId
  /\ pathEffectDue' = FALSE /\ animEffectDue' = FALSE /\ animCleanup' = NoId
  /\ droneInitialLocation' = NoLoc /\ wsConnected' = FALSE /\ animWsRef' = NoId
  /\ pathLine' = NoLoc /\ totalDistance' = 0
  /\ telemetryEffectDue' = TRUE /\ telemetryCleanup' = FALSE
  /\ geoPending' = geoPending
  /\ ticks' = 0 /\ elapsed' = 0

\* A cleanup that resets the ref and the flag but never calls clearInterval.
AnimCleanupNoClear(tms) == MarkCleaned(tms, animCleanup)

\* Cleanup of the animation effect (timer variant): clear the interval the
\* ref holds.  animCleanup is the id of the interval whose effect run
\* returned the cleanup, NoId when the last run returned none.
AnimCleanupTimers(tms) ==
  IF animCleanup # NoId /\ intervalRef # NoId
  THEN ClearTimer(MarkCleaned(tms, animCleanup), intervalRef)
  ELSE MarkCleaned(tms, animCleanup)

\* The cleanup runs while the interval has fired some but not all of its ticks.
CleanedMidway == ticks > 0 /\ deliveryPathPoints # NoLoc /\ ticks < Len(deliveryPathPoints)

\* Cleanup of the telemetry effect (telemetry variant): close the socket.
TelemetryCleanupSocks(socks) ==
  IF telemetryCleanup /\ animWsRef # NoId THEN CloseSock(socks, animWsRef) ELSE socks

\* ------------------------------------------------------- telemetry frames
\* A text frame of the feed.  valid: JSON.parse returns an object; hasPos:
\* the object has numeric lat and lon; rtl: rtl_status is absent, or present
\* with is_rtl_active true ("active") or false ("inactive"); error: the
\* object has a non-empty error string.
Frame(valid, hasPos, lat, lon, rtl, error) ==
  [valid |-> valid, hasPos |-> hasPos, lat |-> lat, lon |-> lon, rtl |-> rtl, error |-> error]

FrameLats == {0, TestLat}
FrameLons == {0, TestLng - 3, TestLng - 1}

InvalidJson == Frame(FALSE, FALSE, 0, 0, "absent", FALSE)
NoiseFrame == Frame(TRUE, FALSE, 0, 0, "absent", FALSE)

Frames ==
  {InvalidJson, NoiseFrame, Frame(TRUE, FALSE, 0, 0, "absent", TRUE)}
  \cup {Frame(TRUE, TRUE, la, lo, "absent", FALSE) : la \in FrameLats, lo \in FrameLons}
  \cup {Frame(TRUE, hp, TestLat, TestLng - 1, r, FALSE) : hp \in BOOLEAN, r \in {"active", "inactive"}}

\* One frame for each way a listener can read a frame: ShoppingCart reads
\* only rtl_status, DeliveryAnimation only lat, lon and error.  The frames
\* left out take a listener to the same state as one of these.
CartFrames ==
  {InvalidJson, NoiseFrame}
  \cup {Frame(TRUE, TRUE, TestLat, TestLng - 1, r, FALSE) : r \in {"absent", "active", "inactive"}}
AnimFrames == {f \in Frames : f.rtl = "absent"}

\* ------------------------------------------------------------ ShoppingCart
\* ------------------------------------------------------------- Marketplace
\* The ids of the catalog (products of @/lib/data), and an id that is not in
\* the catalog.
ProductIds == 1..3
UnknownId == 0

\* An addToCart that removes an item only when its quantity falls below 0.
addToCartKeepingZero(prevItems, productId, quantityChange) ==
  IF productId \notin ProductIds THEN prevItems
  ELSE LET found == {i \in 1..Len(prevItems) : prevItems[i].id = productId}
       IN IF found # {}
          THEN LET existingItem == prevItems[CHOOSE i \in found : \A j \in found : i <= j]
                   newQuantity == existingItem.quantity + quantityChange
                   others(item) == item.id # productId
               IN IF newQuantity < 0
                  THEN SelectSeq(prevItems, others)
                  ELSE [i \in 1..Len(prevItems) |->
                          IF prevItems[i].id = productId
                          THEN [prevItems[i] EXCEPT !.quantity = newQuantity]
                          ELSE prevItems[i]]
          ELSE IF quantityChange > 0
          THEN Append(prevItems, [id |-> productId, quantity |-> quantityChange])
          ELSE prevItems

\* addToCart(productId, quantityChange): the new cartItems, from the previous
\* ones (the updater passed to setCartItems).
addToCart(prevItems, productId, quantityChange) ==
  IF productId \notin ProductIds THEN prevItems
  ELSE LET found == {i \in 1..Len(prevItems) : prevItems[i].id = productId}
       IN IF found # {}
          THEN LET existingItem == prevItems[CHOOSE i \in found : \A j \in found : i <= j]
                   newQuantity == existingItem.quantity + quantityChange
                   others(item) == item.id # productId
               IN IF newQuantity <= 0
                  THEN SelectSeq(prevItems, others)
                  ELSE [i \in 1..Len(prevItems) |->
                          IF prevItems[i].id = productId
                          THEN [prevItems[i] EXCEPT !.quantity = newQuantity]
                          ELSE prevItems[i]]
          ELSE IF quantityChange > 0
          THEN Append(prevItems, [id |-> productId, quantity |-> quantityChange])
          ELSE prevItems

\* Marketplace after construction: an empty cart, every card at 0.
MarketIdle ==
  /\ cartItems = <<>>
  /\ quantity = [p \in ProductIds |-> 0]

\* The customer has added product 1 on its card.
MarketFilled ==
  /\ cartItems = <<[id |-> 1, quantity |-> 1]>>
  /\ quantity = [p \in ProductIds |-> IF p = 1 THEN 1 ELSE 0]

\* No call of getCurvedLinePoints is under study.
PlanIdle ==
  /\ planStart = NoLoc /\ planEnd = NoLoc /\ planSteps = 0
  /\ planPoints = NoLoc /\ planCalled = FALSE

\* useState and useRef initial values of ShoppingCart, as the cart sheet
\* opens; DeliveryAnimation is not mounted.
FlowInit ==
  /\ checkoutStep = "cart" /\ committedStep = "cart"
  /\ orderError = NoError
  /\ deliveryStatus = "Preparing..."
  /\ wsRef = NoId
  /\ calls = Empty /\ nextCall = 0
  /\ sockets = Empty
  /\ timers = Empty
  /\ mounted = 0 /\ geoPending = {}
  /\ progress = 0
  /\ dronePosition = IF variant = "timer" THEN ToPoint(STORE_COORDS) ELSE NoLoc
  /\ estimatedTime = DELIVERY_TIME_SECONDS * 1000
  /\ currentUserLocation = NoLoc
  /\ locationError = NoError
  /\ isLocating = (variant = "timer")
  /\ isAnimating = FALSE
  /\ statusText = <<"Preparing...">>
  /\ deliveryPathPoints = NoLoc
  /\ intervalRef = NoId
  /\ pathEffectDue = FALSE /\ animEffectDue = FALSE /\ animCleanup = NoId
  /\ droneInitialLocation = NoLoc /\ wsConnected = FALSE /\ animWsRef = NoId
  /\ pathLine = NoLoc /\ totalDistance = 0
  /\ telemetryEffectDue = FALSE /\ telemetryCleanup = FALSE
  /\ ticks = 0 /\ elapsed = 0 /\ cleanedMid = FALSE /\ lateTick = FALSE /\ frameSeq = FALSE
  /\ sessions = 0 /\ clickQueried = FALSE /\ sentTarget = NoLoc

Init ==
  /\ variant \in {"timer", "telemetry"}
  /\ geoSupported \in BOOLEAN
  /\ PlanIdle
  /\ MarketFilled
  /\ FlowInit

daVars == <<timerDaVars, telDaVars, sharedDaVars, ticks, elapsed>>

AddCall(id, rec) == [i \in DOMAIN calls \cup {id} |-> IF i = id THEN rec ELSE calls[i]]
DropCall(id) == [i \in DOMAIN calls \ {id} |-> calls[i]]

\* Click on Place Order, which is rendered while the cart has items:
\* setOrderError(null), the geolocation guard, then the promise around
\* getCurrentPosition is pending.
handleCheckout ==
  /\ committedStep = "cart"
  /\ Len(cartItems) > 0
  /\ nextCall < MaxClicks
  /\ nextCall' = nextCall + 1
  /\ IF geoSupported
     THEN /\ orderError' = NoError
          /\ calls' = AddCall(nextCall + 1, [kind |-> "checkout", pc |-> "geo", coords |-> NoLoc])
     ELSE /\ orderError' = "Geolocation is not supported by your browser."
          /\ calls' = calls
  /\ UNCHANGED <<checkoutStep, committedStep, deliveryStatus, wsRef>>
  /\ UNCHANGED <<envVars, resVars, daVars, monVars>>

\* The position callback resolves the promise; the handler goes on to fetch.
CheckoutGeoSuccess(c, loc) ==
  /\ calls[c].kind = "checkout" /\ calls[c].pc = "geo"
  /\ calls' = [calls EXCEPT ![c] = [kind |-> "checkout", pc |-> "fetch", coords |-> loc]]
  /\ UNCHANGED <<checkoutStep, committedStep, orderError, deliveryStatus, wsRef, nextCall>>
  /\ UNCHANGED <<envVars, resVars, daVars, monVars>>

\* A catch that shows the error and queries the position again.
CheckoutGeoErrorRetrying(c) ==
  /\ calls[c].kind = "checkout" /\ calls[c].pc = "geo"
  /\ calls' = calls
  /\ orderError' = "Could not fetch your location."
  /\ UNCHANGED <<checkoutStep, committedStep, deliveryStatus, wsRef, nextCall>>
  /\ UNCHANGED <<envVars, resVars, daVars, monVars>>

\* The error callback rejects the promise: catch, setOrderError, return.
CheckoutGeoError(c) ==
  /\ calls[c].kind = "checkout" /\ calls[c].pc = "geo"
  /\ calls' = DropCall(c)
  /\ orderError' = "Could not fetch your location."
  /\ UNCHANGED <<checkoutStep, committedStep, deliveryStatus, wsRef, nextCall>>
  /\ UNCHANGED <<envVars, resVars, daVars, monVars>>

\* Click on Test Drone: setOrderError(null), then the fetch is pending.
handleTestDrone ==
  /\ committedStep = "cart"
  /\ nextCall < MaxClicks
  /\ nextCall' = nextCall + 1
  /\ orderError' = NoError
  /\ calls' = AddCall(nextCall + 1, [kind |-> "test", pc |-> "fetch", coords |-> <<TestLat, TestLng>>])
  /\ UNCHANGED <<checkoutStep, committedStep, deliveryStatus, wsRef>>
  /\ UNCHANGED <<envVars, resVars, daVars, monVars>>

Responses == {"ok_json", "ok_empty", "not_ok", "network_error"}

\* A coordinate of the 0.01 degree grid on the 0.005 degree grid.
Fine(ll) == <<2 * ll[1], 2 * ll[2]>>

\* target_lat and target_lon of the request body, on the 0.005 degree grid:
\* handleCheckout sends the position fix, handleTestDrone the test
\* coordinates.
SentTarget(call) == IF call.kind = "checkout" THEN Fine(call.coords) ELSE call.coords

\* A handler that never tests res.ok: every settled response is a success.
TriggerResponseUnchecked(c, r) ==
  /\ calls[c].pc = "fetch"
  /\ calls' = DropCall(c)
  /\ IF r # "network_error"
     THEN /\ checkoutStep' = "delivery"
          /\ orderError' = orderError
     ELSE /\ checkoutStep' = checkoutStep
          /\ orderError' = "Failed to fetch"
  /\ UNCHANGED <<committedStep, deliveryStatus, wsRef, nextCall>>
  /\ clickQueried' = IF (r # "network_error") /\ checkoutStep # "delivery"
                   THEN calls[c].kind = "checkout"
                   ELSE clickQueried
  /\ sentTarget' = IF (r # "network_error") /\ checkoutStep = "cart" /\ committedStep = "cart"
                   THEN SentTarget(calls[c])
                   ELSE sentTarget
  /\ UNCHANGED <<envVars, resVars, daVars, cleanedMid, lateTick, frameSeq, sessions>>

\* The fetch settles.  handleCheckout takes any res.ok response as success;
\* handleTestDrone also awaits res.json(), which throws on a body that is
\* not JSON.
TriggerResponse(c, r) ==
  /\ calls[c].pc = "fetch"
  /\ calls' = DropCall(c)
  /\ LET success == \/ r = "ok_json"
                    \/ r = "ok_empty" /\ calls[c].kind = "checkout"
     IN IF success
        THEN /\ checkoutStep' = "delivery"
             /\ orderError' = orderError
        ELSE /\ checkoutStep' = checkoutStep
             /\ orderError' = CASE r = "not_ok" -> "Trigger failed: status text"
                                [] r = "ok_empty" -> "Unexpected end of JSON input"
                                [] OTHER -> "Failed to fetch"
  /\ UNCHANGED <<committedStep, deliveryStatus, wsRef, nextCall>>
  /\ clickQueried' = IF (r = "ok_json" \/ (r = "ok_empty" /\ calls[c].kind = "checkout")) /\ checkoutStep # "delivery"
                   THEN calls[c].kind = "checkout"
                   ELSE clickQueried
  /\ sentTarget' = IF /\ r = "ok_json" \/ (r = "ok_empty" /\ calls[c].kind = "checkout")
                      /\ checkoutStep = "cart" /\ committedStep = "cart"
                   THEN SentTarget(calls[c])
                   ELSE sentTarget
  /\ UNCHANGED <<envVars, resVars, daVars, cleanedMid, lateTick, frameSeq, sessions>>

\* Click on Place New Order in the completed view.
PlaceNewOrder ==
  /\ committedStep = "completed"
  /\ checkoutStep' = "cart"
  /\ deliveryStatus' = "Preparing..."
  /\ UNCHANGED <<committedStep, orderError, wsRef, calls, nextCall>>
  /\ UNCHANGED <<envVars, resVars, daVars, monVars>>

\* The commit after checkoutStep changed.  The telemetry effect of
\* ShoppingCart re-runs (cleanup of the previous run, then the body), and
\* DeliveryAnimation is mounted when the delivery view appears and unmounted
\* (its effect cleanups run) when it disappears.
CartCommit ==
  /\ checkoutStep # committedStep
  /\ committedStep' = checkoutStep
  /\ LET leaving == committedStep = "delivery"
         entering == checkoutStep = "delivery"
         \* cleanup returned by the run that opened the socket
         socks1 == IF leaving /\ wsRef # NoId THEN CloseSock(sockets, wsRef) ELSE sockets
         ref1 == IF leaving THEN NoId ELSE wsRef
         \* body: not in delivery mode
         socks2 == IF ~entering /\ ref1 # NoId THEN CloseSock(socks1, ref1) ELSE socks1
         \* body: new WebSocket
         newSock == FreshId(DOMAIN sockets \cup {wsRef, animWsRef})
         socks3 == IF entering
                   THEN AddSock(socks2, newSock, NewSocket("cart", 0, NoLoc, NoLoc, 0))
                   ELSE socks2
         newInst == FreshId(geoPending \cup {sockets[i].inst : i \in DOMAIN sockets}
                                       \cup {timers[i].inst : i \in DOMAIN timers})
     IN /\ wsRef' = IF entering THEN newSock ELSE NoId
        /\ IF entering
           THEN /\ sockets' = Pending(socks3, newInst)
                /\ mounted' = newInst
                /\ IF variant = "timer" THEN MountTimerDA(newInst) ELSE MountTelemetryDA
                /\ sessions' = sessions + 1
                /\ clickQueried' = FALSE
                /\ sentTarget' = IF variant = "timer" /\ geoSupported THEN sentTarget ELSE NoLoc
                /\ UNCHANGED <<timers, cleanedMid, frameSeq, lateTick>>
           ELSE IF leaving
           THEN /\ sockets' = Pending(TelemetryCleanupSocks(socks3), 0)
                /\ timers' = AnimCleanupTimers(timers)
                /\ cleanedMid' = (cleanedMid \/ (animCleanup # NoId /\ CleanedMidway))
                /\ sentTarget' = NoLoc
                /\ UNCHANGED <<lateTick, sessions, frameSeq, clickQueried>>
                /\ mounted' = 0
                /\ FreshDA
                /\ geoPending' = geoPending \ {mounted}
           ELSE /\ sockets' = Pending(socks3, mounted)
                /\ UNCHANGED <<timers, monVars, daVars>>
  /\ UNCHANGED <<checkoutStep, orderError, deliveryStatus, calls, nextCall>>
  /\ UNCHANGED envVars

\* ws.onopen of ShoppingCart
CartWsOpen(id) ==
  /\ sockets[id].owner = "cart" /\ sockets[id].state = "connecting"
  /\ sockets' = [sockets EXCEPT ![id].state = "open"]
  /\ deliveryStatus' = "Connected to drone telemetry..."
  /\ UNCHANGED <<checkoutStep, committedStep, orderError, wsRef, calls, nextCall>>
  /\ UNCHANGED <<envVars, timers, daVars, monVars>>

\* ws.onmessage of ShoppingCart completing the delivery only once the
\* animation shows full progress.
CartWsMessageAtFullProgress(id, f) ==
  /\ sockets[id].owner = "cart" /\ sockets[id].state = "open"
  /\ IF ~f.valid
     THEN UNCHANGED <<deliveryStatus, checkoutStep>>
     ELSE IF f.rtl # "absent"
     THEN IF f.rtl = "active" /\ progress >= 100
          THEN /\ deliveryStatus' = "Delivery completed!"
               /\ checkoutStep' = "completed"
          ELSE UNCHANGED <<deliveryStatus, checkoutStep>>
     ELSE /\ deliveryStatus' = "Mission in progress..."
          /\ checkoutStep' = checkoutStep
  /\ UNCHANGED <<committedStep, orderError, wsRef, calls, nextCall>>
  /\ frameSeq' = ~frameSeq
  /\ UNCHANGED <<envVars, resVars, daVars, cleanedMid, lateTick, sessions, clickQueried, sentTarget>>

\* ws.onmessage of ShoppingCart.  JSON.parse throwing, or data being null,
\* ends in the catch; a frame without rtl_status takes the else branch.
CartWsMessage(id, f) ==
  /\ sockets[id].owner = "cart" /\ sockets[id].state = "open"
  /\ IF ~f.valid
     THEN UNCHANGED <<deliveryStatus, checkoutStep>>
     ELSE IF f.rtl # "absent"
     THEN IF f.rtl = "active"
          THEN /\ deliveryStatus' = "Delivery completed!"
               /\ checkoutStep' = "completed"
          ELSE UNCHANGED <<deliveryStatus, checkoutStep>>
     ELSE /\ deliveryStatus' = "Mission in progress..."
          /\ checkoutStep' = checkoutStep
  /\ UNCHANGED <<committedStep, orderError, wsRef, calls, nextCall>>
  /\ frameSeq' = ~frameSeq
  /\ UNCHANGED <<envVars, resVars, daVars, cleanedMid, lateTick, sessions, clickQueried, sentTarget>>

\* ws.onerror of ShoppingCart: the connection failed, or close() was called
\* before it was established.
CartWsError(id) ==
  /\ sockets[id].owner = "cart" /\ sockets[id].state \in {"connecting", "open", "failing"}
  /\ sockets' = Pending([sockets EXCEPT ![id].state = "errored"], mounted)
  /\ deliveryStatus' = "Connection error"
  /\ UNCHANGED <<checkoutStep, committedStep, orderError, wsRef, calls, nextCall>>
  /\ UNCHANGED <<envVars, timers, daVars, monVars>>

\* ws.onclose of ShoppingCart: only logs.
CartWsClose(id) ==
  /\ sockets[id].owner = "cart" /\ sockets[id].state \in {"open", "closing", "errored"}
  /\ sockets' = RemoveSock(sockets, id)
  /\ UNCHANGED cartVars
  /\ UNCHANGED <<envVars, timers, daVars, monVars>>

\* ------------------------------------- DeliveryAnimation, timer variant
\* successCallback of the geolocation effect.  A callback of an instance
\* that is no longer mounted sets nothing.
GeoSuccess(inst, loc) ==
  /\ inst \in geoPending
  /\ geoPending' = geoPending \ {inst}
  /\ IF inst = mounted
     THEN /\ currentUserLocation' = loc
          /\ isLocating' = FALSE
          /\ locationError' = NoError
          /\ statusText' = <<"Calculating route...">>
          /\ pathEffectDue' = TRUE
          /\ animEffectDue' = TRUE
     ELSE UNCHANGED <<currentUserLocation, isLocating, locationError, statusText,
                      pathEffectDue, animEffectDue>>
  /\ UNCHANGED <<estimatedTime, isAnimating, deliveryPathPoints, intervalRef, animCleanup,
                 mounted, progress, dronePosition, ticks, elapsed>>
  /\ sentTarget' = IF inst = mounted THEN NoLoc ELSE sentTarget
  /\ UNCHANGED <<envVars, cartVars, resVars, telDaVars, cleanedMid, lateTick, frameSeq,
                 sessions, clickQueried>>

GeoErrorCodes == {"PERMISSION_DENIED", "POSITION_UNAVAILABLE", "TIMEOUT", "UNKNOWN"}

GeoErrorMessage(code) ==
  CASE code = "PERMISSION_DENIED" ->
         "Location access denied. Please enable location permissions for this site."
    [] code = "POSITION_UNAVAILABLE" -> "Location information is unavailable."
    [] code = "TIMEOUT" -> "The request to get user location timed out."
    [] OTHER -> "Could not fetch your location."

\* An errorCallback that shows the error and asks for the position again.
GeoErrorRequery(inst, code) ==
  /\ inst \in geoPending
  /\ geoPending' = geoPending
  /\ inst = mounted /\ locationError = NoError
  /\ locationError' = GeoErrorMessage(code)
  /\ isLocating' = FALSE
  /\ statusText' = <<"Location Error">>
  /\ pathEffectDue' = TRUE
  /\ UNCHANGED <<estimatedTime, isAnimating, deliveryPathPoints, intervalRef, animEffectDue,
                 animCleanup, mounted, progress, dronePosition, currentUserLocation,
                 ticks, elapsed>>
  /\ sentTarget' = IF inst = mounted THEN NoLoc ELSE sentTarget
  /\ UNCHANGED <<envVars, cartVars, resVars, telDaVars, cleanedMid, lateTick, frameSeq,
                 sessions, clickQueried>>

\* errorCallback of the geolocation effect.
GeoError(inst, code) ==
  /\ inst \in geoPending
  /\ geoPending' = geoPending \ {inst}
  /\ IF inst = mounted
     THEN /\ locationError' = GeoErrorMessage(code)
          /\ isLocating' = FALSE
          /\ statusText' = <<"Location Error">>
          /\ pathEffectDue' = TRUE
     ELSE UNCHANGED <<locationError, isLocating, statusText, pathEffectDue>>
  /\ UNCHANGED <<estimatedTime, isAnimating, deliveryPathPoints, intervalRef, animEffectDue,
                 animCleanup, mounted, progress, dronePosition, currentUserLocation,
                 ticks, elapsed>>
  /\ sentTarget' = IF inst = mounted THEN NoLoc ELSE sentTarget
  /\ UNCHANGED <<envVars, cartVars, resVars, telDaVars, cleanedMid, lateTick, frameSeq,
                 sessions, clickQueried>>

\* The validation of a position before it is published.
IsValidPos(pt) == Len(pt) = 2 /\ IsFinite(pt[1]) /\ IsFinite(pt[2])

\* The state the effects of one commit read and write, as a record.
DisplayState ==
  [progress |-> progress, dronePosition |-> dronePosition, estimatedTime |-> estimatedTime,
   statusText |-> statusText, deliveryPathPoints |-> deliveryPathPoints,
   locationError |-> locationError, isAnimating |-> isAnimating,
   intervalRef |-> intervalRef, timers |-> timers,
   animCleanup |-> animCleanup, cleanedMid |-> cleanedMid,
   ticks |-> ticks, elapsed |-> elapsed, pathEffectDue |-> FALSE, animEffectDue |-> FALSE]

\* A path effect that plans a route to the test customer while the
\* destination is still unknown.
PathEffectWithoutDestination(st) ==
  LET end == IF currentUserLocation # NoLoc THEN currentUserLocation
             ELSE USER_COORDS_FOR_TESTING
      points == getCurvedLinePoints(STORE_COORDS, end, CURVE_STEPS)
  IN [st EXCEPT !.deliveryPathPoints = points,
                !.dronePosition = points[1],
                !.statusText = <<"Ready to depart...">>,
                !.animEffectDue = (deliveryPathPoints # points)]

\* Effect to Calculate Path, with the state of the render it belongs to.
PathEffect(st) ==
  IF currentUserLocation # NoLoc
  THEN LET points == getCurvedLinePoints(STORE_COORDS, currentUserLocation, CURVE_STEPS)
       IN IF Len(points) >= 2
          THEN [st EXCEPT !.deliveryPathPoints = points,
                          !.dronePosition = points[1],
                          !.statusText = <<"Ready to depart...">>,
                          !.animEffectDue = TRUE]
          ELSE [st EXCEPT !.deliveryPathPoints = NoLoc,
                          !.dronePosition = ToPoint(STORE_COORDS),
                          !.statusText = <<"Route unavailable">>,
                          !.locationError = "Could not calculate a valid delivery route.",
                          !.pathEffectDue =
                             (locationError # "Could not calculate a valid delivery route."),
                          !.animEffectDue = (deliveryPathPoints # NoLoc)]
  ELSE [st EXCEPT !.deliveryPathPoints = NoLoc,
                  !.dronePosition = ToPoint(STORE_COORDS),
                  !.statusText = IF ~isLocating /\ locationError = NoError
                                 THEN <<"Waiting for destination...">> ELSE @,
                  !.animEffectDue = (deliveryPathPoints # NoLoc)]

\* An interval computed from the number of points instead of the number of
\* segments.
IntervalTimeShort(totalSteps) == (DELIVERY_TIME_SECONDS * 1000) \div totalSteps

\* intervalTime = (DELIVERY_TIME_SECONDS * 1000) / (totalSteps - 1), in whole
\* milliseconds
IntervalTime(totalSteps) == (DELIVERY_TIME_SECONDS * 1000) \div (totalSteps - 1)

\* The closure of the setInterval callback.
NewTimer(inst, path, dest) ==
  [inst |-> inst, path |-> path, dest |-> dest, currentStep |-> 0,
   intervalTime |-> IntervalTime(Len(path)), cleaned |-> FALSE]

AddTimer(tms, id, rec) == [i \in DOMAIN tms \cup {id} |-> IF i = id THEN rec ELSE tms[i]]

\* Cleanup function of the animation effect.
AnimCleanup(st) ==
  IF st.animCleanup = NoId THEN st
  ELSE [st EXCEPT !.timers = AnimCleanupTimers(@),
                  !.intervalRef = NoId,
                  !.isAnimating = FALSE,
                  !.cleanedMid = @ \/ CleanedMidway,
                  !.animCleanup = NoId]

\* Effect to Run Drone Animation, with the state of the render it belongs to.
AnimEffect(st) ==
  IF deliveryPathPoints # NoLoc /\ Len(deliveryPathPoints) >= 2
  THEN LET totalSteps == Len(deliveryPathPoints)
           started == [st EXCEPT !.isAnimating = TRUE,
                                 !.statusText = <<"Drone departed!">>,
                                 !.progress = 0,
                                 !.estimatedTime = DELIVERY_TIME_SECONDS * 1000,
                                 !.dronePosition = deliveryPathPoints[1]]
       IN IF totalSteps <= 1
          THEN [started EXCEPT !.progress = 100, !.estimatedTime = 0, !.isAnimating = FALSE,
                               !.dronePosition = IF currentUserLocation # NoLoc
                                                 THEN ToPoint(currentUserLocation) ELSE @,
                               !.statusText = <<"Drone has arrived!">>]
          ELSE IF IntervalTime(totalSteps) <= 0
          THEN [started EXCEPT !.isAnimating = FALSE, !.statusText = <<"Animation Error">>]
          ELSE LET leftover == started.intervalRef
                   id == FreshId(DOMAIN st.timers \cup {started.intervalRef})
               IN [started EXCEPT
                     !.timers = AddTimer(IF leftover # NoId THEN ClearTimer(@, leftover) ELSE @,
                                         id, NewTimer(mounted, deliveryPathPoints,
                                                      currentUserLocation)),
                     !.intervalRef = id,
                     !.animCleanup = id,
                     !.ticks = 0,
                     !.elapsed = 0]
  ELSE [st EXCEPT !.isAnimating = FALSE]

\* The commit that runs the effects whose dependencies changed: the path
\* effect ([currentUserLocation, isLocating, locationError]) and the animation
\* effect ([deliveryPathPoints, currentUserLocation]), cleanup first.
DACommitTimer ==
  /\ variant = "timer" /\ mounted # 0
  /\ pathEffectDue \/ animEffectDue
  /\ LET s1 == IF pathEffectDue THEN PathEffect(DisplayState) ELSE DisplayState
         s2 == IF animEffectDue THEN AnimEffect(AnimCleanup(s1)) ELSE s1
     IN /\ progress' = s2.progress
        /\ dronePosition' = s2.dronePosition
        /\ estimatedTime' = s2.estimatedTime
        /\ statusText' = s2.statusText
        /\ deliveryPathPoints' = s2.deliveryPathPoints
        /\ locationError' = s2.locationError
        /\ isAnimating' = s2.isAnimating
        /\ intervalRef' = s2.intervalRef
        /\ timers' = s2.timers
        /\ animCleanup' = s2.animCleanup
        /\ cleanedMid' = s2.cleanedMid
        /\ ticks' = s2.ticks
        /\ elapsed' = s2.elapsed
        /\ pathEffectDue' = s2.pathEffectDue
        /\ animEffectDue' = s1.animEffectDue
  /\ UNCHANGED <<isLocating, geoPending, mounted, currentUserLocation, lateTick, frameSeq,
                 sessions, clickQueried, sentTarget>>
  /\ UNCHANGED <<envVars, cartVars, sockets, telDaVars>>

\* A progress fraction taken over the number of points instead of the
\* number of segments.
DisplayProgressOfLength(currentStep, totalSteps) ==
  Min((currentStep * 100) \div totalSteps, 100)

\* displayProgress = Math.min(currentStep / (totalSteps - 1) * 100, 100), as a
\* whole percent
DisplayProgress(currentStep, totalSteps) ==
  Min((currentStep * 100) \div (totalSteps - 1), 100)

\* displayTime = Math.max(0, DELIVERY_TIME_SECONDS * (1 - currentProgress)), in
\* whole milliseconds
DisplayTime(currentStep, totalSteps) ==
  Max(0, (DELIVERY_TIME_SECONDS * 1000 * (totalSteps - 1 - currentStep)) \div (totalSteps - 1))

\* A callback that forgets to advance its counter.
StepNotAdvanced(currentStep) == currentStep

\* currentStep++
NextStep(currentStep) == currentStep + 1

\* One run of the setInterval callback of interval id.  The state setters
\* act on the instance that started the interval, and only while it is
\* mounted; currentStep is the callback's own counter.
Tick(id) ==
  /\ id \in DOMAIN timers
  /\ LET tm == timers[id]
         live == tm.inst = mounted
         totalSteps == Len(tm.path)
         nextPos == tm.path[tm.currentStep + 1]
         currentStep == tm.currentStep
         displayProgress == DisplayProgress(currentStep, totalSteps)
         displayTime == DisplayTime(currentStep, totalSteps)
         ref == IF live THEN intervalRef ELSE id
         cleared == IF ref # NoId THEN ClearTimer(timers, ref) ELSE timers
     IN /\ lateTick' = (lateTick \/ tm.cleaned)
        /\ ticks' = IF live THEN Min(ticks + 1, MaxTicks) ELSE ticks
        /\ elapsed' = IF live THEN Min(elapsed + tm.intervalTime, MaxTicks * tm.intervalTime)
                             ELSE elapsed
        /\ IF currentStep < totalSteps
           THEN IF IsValidPos(nextPos)
                THEN /\ timers' = [timers EXCEPT ![id].currentStep = NextStep(currentStep)]
                     /\ intervalRef' = intervalRef
                     /\ isAnimating' = isAnimating
                     /\ IF live
                        THEN /\ dronePosition' = nextPos
                             /\ progress' = displayProgress
                             /\ estimatedTime' = displayTime
                             /\ statusText' =
                                  IF displayProgress < 100
                                  THEN <<"Estimated arrival in N seconds",
                                         CeilDiv(displayTime, 1000)>>
                                  ELSE statusText
                        ELSE UNCHANGED <<dronePosition, progress, estimatedTime, statusText>>
                ELSE /\ timers' = cleared
                     /\ IF live
                        THEN /\ intervalRef' = NoId
                             /\ isAnimating' = FALSE
                             /\ statusText' = <<"Animation Error: Invalid path data">>
                             /\ dronePosition' = IF tm.dest # NoLoc THEN ToPoint(tm.dest)
                                                 ELSE dronePosition
                        ELSE UNCHANGED <<intervalRef, isAnimating, statusText, dronePosition>>
                     /\ UNCHANGED <<progress, estimatedTime>>
           ELSE /\ timers' = cleared
                /\ IF live
                   THEN /\ intervalRef' = NoId
                        /\ dronePosition' =
                             IF tm.dest # NoLoc
                             THEN IF IsValidPos(ToPoint(tm.dest)) THEN ToPoint(tm.dest)
                                  ELSE IF IsValidPos(tm.path[totalSteps])
                                       THEN tm.path[totalSteps] ELSE dronePosition
                             ELSE IF IsValidPos(tm.path[totalSteps])
                                  THEN tm.path[totalSteps] ELSE dronePosition
                        /\ progress' = 100
                        /\ estimatedTime' = 0
                        /\ isAnimating' = FALSE
                        /\ statusText' = <<"Drone has arrived!">>
                   ELSE UNCHANGED <<intervalRef, dronePosition, progress, estimatedTime,
                                    isAnimating, statusText>>
  /\ UNCHANGED <<deliveryPathPoints, pathEffectDue, animEffectDue, animCleanup, geoPending,
                 isLocating, mounted, currentUserLocation, locationError>>
  /\ UNCHANGED <<cleanedMid, frameSeq, sessions, clickQueried, sentTarget>>
  /\ UNCHANGED <<envVars, cartVars, sockets, telDaVars>>

\* --------------------------------- DeliveryAnimation, telemetry variant
\* The commit that re-runs the telemetry effect
\* ([currentUserLocation, droneInitialLocation, totalDistance]): the cleanup
\* of the previous run, then a new socket whose handlers close over the
\* state of this render.
DACommitTelemetry ==
  /\ variant = "telemetry" /\ mounted # 0
  /\ telemetryEffectDue
  /\ telemetryEffectDue' = FALSE
  /\ IF currentUserLocation = NoLoc
     THEN /\ sockets' = TelemetryCleanupSocks(sockets)
          /\ animWsRef' = IF telemetryCleanup THEN NoId ELSE animWsRef
          /\ wsConnected' = IF telemetryCleanup THEN FALSE ELSE wsConnected
          /\ telemetryCleanup' = FALSE
     ELSE LET socks1 == TelemetryCleanupSocks(sockets)
              ref1 == IF telemetryCleanup THEN NoId ELSE animWsRef
              socks2 == IF ref1 # NoId THEN CloseSock(socks1, ref1) ELSE socks1
              id == FreshId(DOMAIN sockets \cup {wsRef, animWsRef})
          IN /\ sockets' = AddSock(socks2, id,
                                   NewSocket("anim", mounted, currentUserLocation,
                                             droneInitialLocation, totalDistance))
             /\ animWsRef' = id
             /\ wsConnected' = IF telemetryCleanup THEN FALSE ELSE wsConnected
             /\ telemetryCleanup' = TRUE
  /\ UNCHANGED <<droneInitialLocation, pathLine, totalDistance>>
  /\ UNCHANGED <<envVars, cartVars, timers, timerDaVars, sharedDaVars, histVars>>

\* ws.onopen of the telemetry variant
TelWsOpen(id) ==
  /\ sockets[id].owner = "anim" /\ sockets[id].state = "connecting"
  /\ sockets' = [sockets EXCEPT ![id].state = "open"]
  /\ IF sockets[id].inst = mounted
     THEN /\ wsConnected' = TRUE
          /\ statusText' = <<"Getting drone position...">>
     ELSE UNCHANGED <<wsConnected, statusText>>
  /\ UNCHANGED <<droneInitialLocation, animWsRef, pathLine, totalDistance,
                 telemetryEffectDue, telemetryCleanup>>
  /\ UNCHANGED <<mounted, progress, dronePosition, currentUserLocation, locationError>>
  /\ UNCHANGED <<envVars, cartVars, timers, timerDaVars, histVars>>

\* data?.lat && data?.lon: both present and truthy
HasTruthyPos(f) == f.valid /\ f.hasPos /\ f.lat # 0 /\ f.lon # 0

\* ws.onmessage of the telemetry variant.  droneInitialLocation,
\* totalDistance and currentUserLocation are the values of the render whose
\* effect run created the socket; initialPositionSet is that run's local.
TelWsMessage(id, f) ==
  /\ sockets[id].owner = "anim" /\ sockets[id].state = "open"
  /\ LET sk == sockets[id]
         live == sk.inst = mounted
         pos == <<f.lat, f.lon>>
     IN IF HasTruthyPos(f)
        THEN IF ~sk.initialPositionSet /\ sk.cInit = NoLoc
             THEN /\ sockets' = [sockets EXCEPT ![id].initialPositionSet = TRUE]
                  /\ IF live
                     THEN /\ droneInitialLocation' = pos
                          /\ dronePosition' = pos
                          /\ pathLine' = <<pos, sk.cUser>>
                          /\ totalDistance' = distanceMeters(pos, sk.cUser)
                          /\ statusText' = <<"Drone located. Mission in progress...">>
                          /\ telemetryEffectDue' = TRUE
                     ELSE UNCHANGED <<droneInitialLocation, dronePosition, pathLine,
                                      totalDistance, statusText, telemetryEffectDue>>
                  /\ progress' = progress
             ELSE /\ sockets' = sockets
                  /\ IF live
                     THEN /\ dronePosition' = pos
                          /\ IF sk.cInit # NoLoc
                             THEN LET p == TelemetryProgress(distanceMeters(sk.cInit, pos),
                                                             sk.cTotal)
                                  IN /\ progress' = p
                                     /\ statusText' = IF p >= 95
                                                      THEN <<"Arriving at destination...">>
                                                      ELSE <<"In transit (N%)", p>>
                             ELSE UNCHANGED <<progress, statusText>>
                     ELSE UNCHANGED <<dronePosition, progress, statusText>>
                  /\ UNCHANGED <<droneInitialLocation, pathLine, totalDistance,
                                 telemetryEffectDue>>
        ELSE /\ sockets' = sockets
             /\ statusText' = IF f.valid /\ f.error /\ live
                              THEN <<"Telemetry error: message">> ELSE statusText
             /\ UNCHANGED <<droneInitialLocation, dronePosition, pathLine, totalDistance,
                            telemetryEffectDue, progress>>
  /\ UNCHANGED <<wsConnected, animWsRef, telemetryCleanup>>
  /\ UNCHANGED <<mounted, currentUserLocation, locationError>>
  /\ frameSeq' = ~frameSeq
  /\ UNCHANGED <<envVars, cartVars, timers, timerDaVars, ticks, elapsed, cleanedMid, lateTick,
                 sessions, clickQueried, sentTarget>>

\* ws.onerror of the telemetry variant
TelWsError(id) ==
  /\ sockets[id].owner = "anim" /\ sockets[id].state \in {"connecting", "open", "failing"}
  /\ sockets' = Pending([sockets EXCEPT ![id].state = "errored"], mounted)
  /\ IF sockets[id].inst = mounted
     THEN /\ wsConnected' = FALSE
          /\ statusText' = <<"Telemetry connection error">>
     ELSE UNCHANGED <<wsConnected, statusText>>
  /\ UNCHANGED <<droneInitialLocation, animWsRef, pathLine, totalDistance,
                 telemetryEffectDue, telemetryCleanup>>
  /\ UNCHANGED <<mounted, progress, dronePosition, currentUserLocation, locationError>>
  /\ UNCHANGED <<envVars, cartVars, timers, timerDaVars, histVars>>

\* ws.onclose of the telemetry variant
TelWsClose(id) ==
  /\ sockets[id].owner = "anim" /\ sockets[id].state \in {"open", "closing", "errored"}
  /\ sockets' = RemoveSock(sockets, id)
  /\ wsConnected' = IF sockets[id].inst = mounted THEN FALSE ELSE wsConnected
  /\ UNCHANGED <<droneInitialLocation, animWsRef, pathLine, totalDistance,
                 telemetryEffectDue, telemetryCleanup>>
  /\ UNCHANGED sharedDaVars
  /\ UNCHANGED <<envVars, cartVars, timers, timerDaVars, histVars>>

Next ==
  \/ handleCheckout
  \/ \E c \in DOMAIN calls, loc \in UserLocs : CheckoutGeoSuccess(c, loc)
  \/ \E c \in DOMAIN calls : CheckoutGeoError(c)
  \/ handleTestDrone
  \/ \E c \in DOMAIN calls, r \in Responses : TriggerResponse(c, r)
  \/ PlaceNewOrder
  \/ CartCommit
  \/ \E id \in DOMAIN sockets : CartWsOpen(id)
  \/ \E id \in DOMAIN sockets, f \in CartFrames : CartWsMessage(id, f)
  \/ \E id \in DOMAIN sockets : CartWsError(id)
  \/ \E id \in DOMAIN sockets : CartWsClose(id)
  \/ \E inst \in geoPending, loc \in UserLocs : GeoSuccess(inst, loc)
  \/ \E inst \in geoPending, code \in GeoErrorCodes : GeoError(inst, code)
  \/ DACommitTimer
  \/ \E id \in DOMAIN timers : Tick(id)
  \/ DACommitTelemetry
  \/ \E id \in DOMAIN sockets : TelWsOpen(id)
  \/ \E id \in DOMAIN sockets, f \in AnimFrames : TelWsMessage(id, f)
  \/ \E id \in DOMAIN sockets : TelWsError(id)
  \/ \E id \in DOMAIN sockets : TelWsClose(id)

Spec == Init /\ [][Next]_vars

\* The timer variant under the scheduling the browser guarantees: a
\* scheduled interval keeps firing and a pending commit is carried out.
NextTimer ==
  \/ nextCall < FairClicks /\ handleCheckout
  \/ \E c \in DOMAIN calls, loc \in UserLocs : CheckoutGeoSuccess(c, loc)
  \/ \E c \in DOMAIN calls, r \in Responses : TriggerResponse(c, r)
  \/ PlaceNewOrder
  \/ CartCommit
  \/ \E id \in DOMAIN sockets : CartWsOpen(id)
  \/ \E id \in DOMAIN sockets, f \in CartFrames : CartWsMessage(id, f)
  \/ \E inst \in geoPending, loc \in UserLocs : GeoSuccess(inst, loc)
  \/ \E inst \in geoPending, code \in GeoErrorCodes : GeoError(inst, code)
  \/ DACommitTimer
  \/ \E id \in DOMAIN timers : Tick(id)

InitTimer == Init /\ variant = "timer"

TimerFairSpec ==
  /\ InitTimer
  /\ [][NextTimer]_vars
  /\ WF_vars(DACommitTimer)
  /\ WF_vars(\E id \in DOMAIN timers : Tick(id))

\* ------------------------------------------- getCurvedLinePoints on its own
\* Latitudes and longitudes a caller can pass: the store, the test customer,
\* and a number that is not finite.
PlanLats == {NaN, STORE_COORDS[1], USER_COORDS_FOR_TESTING[1]}
PlanLngs == {NaN, STORE_COORDS[2], USER_COORDS_FOR_TESTING[2]}
PlanSteps == (1..MaxSteps) \cup {CURVE_STEPS}

InitPlan ==
  /\ variant = "timer" /\ geoSupported = TRUE
  /\ MarketIdle
  /\ FlowInit
  /\ planStart \in PlanLats \X PlanLngs
  /\ planEnd \in PlanLats \X PlanLngs
  /\ planSteps \in PlanSteps
  /\ planPoints = NoLoc /\ planCalled = FALSE

getCurvedLinePointsCall ==
  /\ ~planCalled
  /\ planCalled' = TRUE
  /\ planPoints' = getCurvedLinePoints(planStart, planEnd, planSteps)
  /\ UNCHANGED <<planStart, planEnd, planSteps>>
  /\ UNCHANGED <<variant, geoSupported, marketVars, cartVars, resVars, daVars, monVars>>

NextPlan == getCurvedLinePointsCall

PlanSpec == InitPlan /\ [][NextPlan]_vars

\* --------------------------------------- the interval callback on its own
\* The callback validates every point it is about to publish.  The paths of
\* getCurvedLinePoints hold finite points only, so the callback is also run
\* on the closures it defends against: a path with one point that is not
\* finite, and a destination that is null.
BadPoints == {<<NaN, ToPoint(STORE_COORDS)[2]>>, <<ToPoint(STORE_COORDS)[1], NaN>>}

TestPath == getCurvedLinePoints(STORE_COORDS, USER_COORDS_FOR_TESTING, CURVE_STEPS)

\* path with its point number b replaced; b = 0 replaces none.
CorruptPath(path, b, bad) == [k \in 1..Len(path) |-> IF k = b THEN bad ELSE path[k]]

ClosurePaths == {CorruptPath(TestPath, b, bad) : b \in 0..Len(TestPath), bad \in BadPoints}

\* The delivery view right after the animation effect has started interval
\* 1 on `path` (the ShoppingCart socket has failed and is gone).
InitTick ==
  /\ variant = "timer" /\ geoSupported = TRUE
  /\ PlanIdle
  /\ MarketFilled
  /\ checkoutStep = "delivery" /\ committedStep = "delivery"
  /\ orderError = NoError /\ deliveryStatus = "Connection error"
  /\ wsRef = 1 /\ sockets = Empty
  /\ calls = Empty /\ nextCall = 1
  /\ mounted = 1 /\ geoPending = {}
  /\ currentUserLocation \in {NoLoc, USER_COORDS_FOR_TESTING}
  /\ deliveryPathPoints \in ClosurePaths
  /\ timers = [i \in {1} |-> NewTimer(1, deliveryPathPoints, currentUserLocation)]
  /\ intervalRef = 1 /\ animCleanup = 1
  /\ progress = 0
  /\ dronePosition = deliveryPathPoints[1]
  /\ estimatedTime = DELIVERY_TIME_SECONDS * 1000
  /\ locationError = NoError
  /\ isLocating = FALSE /\ isAnimating = TRUE
  /\ statusText = <<"Drone departed!">>
  /\ pathEffectDue = FALSE /\ animEffectDue = FALSE
  /\ droneInitialLocation = NoLoc /\ wsConnected = FALSE /\ animWsRef = NoId
  /\ pathLine = NoLoc /\ totalDistance = 0
  /\ telemetryEffectDue = FALSE /\ telemetryCleanup = FALSE
  /\ ticks = 0 /\ elapsed = 0 /\ cleanedMid = FALSE /\ lateTick = FALSE /\ frameSeq = FALSE
  /\ sessions = 1 /\ clickQueried = FALSE /\ sentTarget = NoLoc

NextTick == \E id \in DOMAIN timers : Tick(id)

TickSpec == InitTick /\ [][NextTick]_vars

\* ------------------------------------------- Marketplace and ProductCard
\* The quantity of product p in the cart, 0 when it has no item.
CartQuantity(items, p) ==
  LET found == {i \in 1..Len(items) : items[i].id = p}
  IN IF found = {} THEN 0 ELSE items[CHOOSE i \in found : \A j \in found : i <= j].quantity

InCart(p) == \E i \in 1..Len(cartItems) : cartItems[i].id = p

\* Click on Add or on + of the ProductCard of p.
handleIncrement(p) ==
  /\ quantity[p] < MaxQty /\ CartQuantity(cartItems, p) < MaxQty
  /\ quantity' = [quantity EXCEPT ![p] = @ + 1]
  /\ cartItems' = addToCart(cartItems, p, 1)
  /\ UNCHANGED <<variant, geoSupported, planVars, cartVars, resVars, daVars, monVars>>

\* Click on - of the ProductCard of p, rendered while its quantity is not 0.
handleDecrement(p) ==
  /\ quantity[p] > 0
  /\ quantity' = [quantity EXCEPT ![p] = @ - 1]
  /\ cartItems' = addToCart(cartItems, p, 0 - 1)
  /\ UNCHANGED <<variant, geoSupported, planVars, cartVars, resVars, daVars, monVars>>

\* Click on + of the item of product id in the cart view of ShoppingCart.
onIncrement(id) ==
  /\ checkoutStep = "cart" /\ InCart(id)
  /\ CartQuantity(cartItems, id) < MaxQty
  /\ cartItems' = addToCart(cartItems, id, 1)
  /\ UNCHANGED <<variant, geoSupported, planVars, quantity, cartVars, resVars, daVars, monVars>>

\* Click on - (or the bin) of the item of product id in the cart view.
onDecrement(id) ==
  /\ checkoutStep = "cart" /\ InCart(id)
  /\ cartItems' = addToCart(cartItems, id, 0 - 1)
  /\ UNCHANGED <<variant, geoSupported, planVars, quantity, cartVars, resVars, daVars, monVars>>

InitMarket ==
  /\ variant = "timer" /\ geoSupported = TRUE
  /\ PlanIdle
  /\ MarketIdle
  /\ FlowInit

NextMarket ==
  \/ \E p \in ProductIds : handleIncrement(p)
  \/ \E p \in ProductIds : handleDecrement(p)
  \/ \E id \in ProductIds : onIncrement(id)
  \/ \E id \in ProductIds : onDecrement(id)

MarketSpec == InitMarket /\ [][NextMarket]_vars

\* addToCart on its own: any call, also for an id that is not in the
\* catalog and for a product that is not in the cart.
addToCartCall(productId, quantityChange) ==
  /\ quantityChange > 0 => CartQuantity(cartItems, productId) < MaxQty
  /\ cartItems' = addToCart(cartItems, productId, quantityChange)
  /\ UNCHANGED <<variant, geoSupported, planVars, quantity, cartVars, resVars, daVars, monVars>>

NextCart == \E productId \in ProductIds \cup {UnknownId}, quantityChange \in {1, 0 - 1} :
              addToCartCall(productId, quantityChange)

CartSpec == InitMarket /\ [][NextCart]_vars

\* ------------------------------------------------------------------ claims
Arrived == <<"Drone has arrived!">>
TimerMounted == variant = "timer" /\ mounted # 0
PathAvailable == TimerMounted /\ deliveryPathPoints # NoLoc /\ Len(deliveryPathPoints) >= 2
IntervalStarted == PathAvailable /\ animCleanup # NoId

\* C1: timer strategy, path of N >= 2 points: when exactly N callbacks of the
\* interval have run since the animation effect started it, progress is 100,
\* estimatedTime is 0 and dronePosition is the last path point, which is
\* the destination itself.
C1_AfterNTicks ==
  (IntervalStarted /\ ticks = Len(deliveryPathPoints))
    => /\ progress = 100
       /\ estimatedTime = 0
       /\ dronePosition = deliveryPathPoints[Len(deliveryPathPoints)]
       /\ dronePosition = ToPoint(currentUserLocation)

C1_Witness ==
  /\ IntervalStarted /\ ticks = Len(deliveryPathPoints)
  /\ currentUserLocation = USER_COORDS_FOR_TESTING
  /\ progress = 100

\* C2: timer strategy: completion is one step: in no state is progress 100
\* while the interval is still scheduled or the status is not the arrived
\* text.
C2_CompletionIsOneStep ==
  (TimerMounted /\ progress = 100)
    => (intervalRef = NoId /\ timers = Empty /\ statusText = Arrived)

\* C3: timer strategy: once the cleanup of the animation effect has run, at
\* whatever tick, its interval is no longer scheduled and none of its
\* callbacks runs again.
C3_NoTickAfterCleanup ==
  /\ ~lateTick
  /\ \A id \in DOMAIN timers : ~timers[id].cleaned

C3_Witness == cleanedMid /\ mounted = 0 /\ timers = Empty

\* C4: at most one animation interval is scheduled at any time: an
\* animation effect run that starts an interval leaves no other interval
\* running.
C4_OneInterval ==
  /\ Cardinality(DOMAIN timers) <= 1
  /\ (intervalRef # NoId => DOMAIN timers = {intervalRef})

C4_Witness == cleanedMid /\ IntervalStarted /\ intervalRef \in DOMAIN timers /\ ticks > 0

\* C5: timer strategy: progress 100 and the arrived status are never shown
\* before DELIVERY_TIME_SECONDS have elapsed since the interval was started.
C5_NeverEarly ==
  (TimerMounted /\ (progress = 100 \/ statusText = Arrived))
    => elapsed >= DELIVERY_TIME_SECONDS * 1000

C5_Witness == TimerMounted /\ progress = 100 /\ statusText = Arrived /\ elapsed > 0

\* C6: timer strategy: once a path of N >= 2 points is available, and unless
\* the view is torn down, the animation reaches progress 100 with the
\* arrived status, the interval cleared and all ticks stopped.
C6_Done == TimerMounted /\ progress = 100 /\ statusText = Arrived
             /\ intervalRef = NoId /\ timers = Empty
C6_Terminates == PathAvailable ~> (C6_Done \/ mounted = 0)

C6_Witness == C6_Done /\ ticks = Len(deliveryPathPoints) + 1

\* C7: an RTL-active frame processed by the ShoppingCart listener moves the
\* session to the completed step, whatever progress the animation shows.
C7_RtlCompletes ==
  [][\A id \in DOMAIN sockets, f \in Frames :
       (f.valid /\ f.rtl = "active" /\ CartWsMessage(id, f))
         => (checkoutStep' = "completed" /\ deliveryStatus' = "Delivery completed!")]_vars

C7_Witness ==
  /\ checkoutStep = "completed" /\ committedStep = "delivery"
  /\ TimerMounted /\ progress = 10

\* C8: a malformed frame (invalid JSON, or an object without the expected
\* fields) is dropped by both listeners: nothing shown changes and the
\* socket stays open.
C8_MalformedDropped ==
  [][\A id \in DOMAIN sockets, f \in {InvalidJson, NoiseFrame} :
       (CartWsMessage(id, f) \/ TelWsMessage(id, f))
         => /\ UNCHANGED <<progress, dronePosition, statusText, deliveryStatus, checkoutStep>>
            /\ id \in DOMAIN sockets' /\ sockets'[id].state = "open"]_vars

\* C9: telemetry strategy: once the origin is recorded, every frame with
\* numeric lat and lon sets dronePosition to the reported coordinate and
\* progress to the clamped share of the planned distance.
C9_EveryFrameUpdates ==
  [][\A id \in DOMAIN sockets, f \in Frames :
       (/\ f.valid /\ f.hasPos
        /\ droneInitialLocation # NoLoc
        /\ sockets[id].inst = mounted
        /\ TelWsMessage(id, f))
         => /\ dronePosition' = <<f.lat, f.lon>>
            /\ progress' = TelemetryProgress(
                             distanceMeters(droneInitialLocation, <<f.lat, f.lon>>),
                             totalDistance)]_vars

\* C10: telemetry strategy: the origin, the path line and totalDistance are
\* set from the first coordinate frame received after the destination is
\* known, and no later frame overwrites them.
C10_WriteOnce ==
  [][(droneInitialLocation # NoLoc /\ mounted' = mounted)
       => UNCHANGED <<droneInitialLocation, pathLine, totalDistance>>]_vars

C10_OriginSetOnce ==
  /\ C10_WriteOnce
  /\ [][\A id \in DOMAIN sockets, f \in Frames :
          (/\ f.valid /\ f.hasPos
           /\ droneInitialLocation = NoLoc /\ currentUserLocation # NoLoc
           /\ sockets[id].inst = mounted
           /\ TelWsMessage(id, f))
            => /\ droneInitialLocation' = <<f.lat, f.lon>>
               /\ pathLine' = <<droneInitialLocation', currentUserLocation>>
               /\ totalDistance' = distanceMeters(droneInitialLocation', currentUserLocation)]_vars

\* C11: checkoutStep becomes delivery only in the step in which the POST
\* /trigger of a pending handler invocation returns a 2xx response; no
\* failure (geolocation unsupported or rejected, non-2xx response, fetch
\* rejected) changes checkoutStep.
Ok2xx == {"ok_json", "ok_empty"}
C11_DeliveryOnlyAfter2xx ==
  [][/\ (checkoutStep # "delivery" /\ checkoutStep' = "delivery")
          => \E c \in DOMAIN calls, r \in Ok2xx : TriggerResponse(c, r)
     /\ \A c \in DOMAIN calls :
          (CheckoutGeoError(c) \/ \E r \in Responses \ Ok2xx : TriggerResponse(c, r))
            => checkoutStep' = checkoutStep
     /\ (~geoSupported /\ handleCheckout) => checkoutStep' = checkoutStep]_vars

C11_Witness ==
  /\ checkoutStep = "delivery" /\ committedStep = "cart"
  /\ calls = Empty /\ nextCall = 1 /\ orderError = NoError

\* C12: a failed checkout attempt (geolocation unsupported or rejected,
\* non-2xx response, fetch rejected) sets orderError to a message, leaves
\* checkoutStep alone and ends the attempt; while the error is shown in the
\* cart view with no attempt pending, no geolocation query or trigger request
\* is issued except by a click, and a click that starts an attempt clears
\* orderError.
C12_FailureIsTerminal ==
  [][/\ \A c \in DOMAIN calls :
          (CheckoutGeoError(c) \/ \E r \in Responses \ Ok2xx : TriggerResponse(c, r))
            => /\ orderError' # NoError
               /\ checkoutStep' = checkoutStep
               /\ c \notin DOMAIN calls'
     /\ (~geoSupported /\ handleCheckout)
          => (orderError' # NoError /\ checkoutStep' = checkoutStep /\ calls' = calls)
     /\ (calls = Empty /\ orderError # NoError /\ checkoutStep = "cart")
          => \/ handleCheckout \/ handleTestDrone
             \/ (calls' = Empty /\ geoPending' \subseteq geoPending /\ orderError' = orderError)
     /\ ((geoSupported /\ handleCheckout) \/ handleTestDrone) => orderError' = NoError]_vars

C12_Witness ==
  /\ orderError = "Trigger failed: status text" /\ checkoutStep = "cart"
  /\ calls = Empty /\ nextCall = 1

\* C13: every 2xx response of the trigger endpoint is a success, with or
\* without a JSON body: in both handlers it moves checkoutStep to delivery
\* and sets no orderError.
C13_Any2xxSucceeds ==
  [][\A c \in DOMAIN calls, r \in Ok2xx :
       TriggerResponse(c, r) => (checkoutStep' = "delivery" /\ orderError' = orderError)]_vars

\* A socket that is connecting or open: close() has not been called on it and
\* it has not failed.
Live(sk) == sk.state \in {"connecting", "open"}
LiveSockets == {i \in DOMAIN sockets : Live(sockets[i])}

\* C14: after a restart (a second delivery view, entered after Place New
\* Order and a successful checkout) whose telemetry socket is up, that socket
\* is the only live telemetry WebSocket, at most one animation interval is
\* scheduled, and no socket or interval of the previous session is left.
C14_RestartOneSource ==
  (/\ sessions >= 2 /\ committedStep = "delivery" /\ checkoutStep = "delivery"
   /\ wsRef \in LiveSockets)
    => /\ LiveSockets = {wsRef}
       /\ Cardinality(DOMAIN timers) <= 1
       /\ \A i \in DOMAIN timers : timers[i].inst = mounted

\* C15: at most one telemetry WebSocket is live at any time, and when the
\* session is outside the delivery view (effects run) wsRef is null and no
\* socket is live.
C15_OneSocketPerSession ==
  /\ Cardinality(LiveSockets) <= 1
  /\ (committedStep = checkoutStep /\ checkoutStep # "delivery")
       => (wsRef = NoId /\ LiveSockets = {})

\* C16: timer strategy: once the geolocation query of a DeliveryAnimation
\* instance has failed, locationError stays set, currentUserLocation and
\* deliveryPathPoints stay null, no interval is started and no further
\* geolocation query is pending, for as long as the instance is mounted.
LocationFailed == TimerMounted /\ locationError # NoError
C16_LocationFailureTerminal ==
  /\ [](LocationFailed
         => /\ currentUserLocation = NoLoc /\ deliveryPathPoints = NoLoc
            /\ intervalRef = NoId /\ animCleanup = NoId
            /\ \A i \in DOMAIN timers : timers[i].inst # mounted
            /\ mounted \notin geoPending
            /\ ~isLocating)
  /\ [][(LocationFailed /\ mounted' = mounted) => locationError' = locationError]_vars

C16_Witness ==
  /\ LocationFailed /\ locationError = GeoErrorMessage("TIMEOUT")
  /\ ~pathEffectDue /\ ~animEffectDue

\* Render guards of DeliveryAnimation: the spinner while locating, then the
\* error panel, then the map with the drone marker and the progress bar.
DAView == IF isLocating THEN "loading" ELSE IF locationError # NoError THEN "error" ELSE "map"

\* C17: timer strategy: isLocating is never true while locationError is set,
\* and the map view is rendered only when isLocating is false and
\* locationError is null.
C17_LoadingXorError ==
  TimerMounted
    => /\ ~(isLocating /\ locationError # NoError)
       /\ (DAView = "map" => (~isLocating /\ locationError = NoError))
       /\ (locationError # NoError => DAView = "error")

C17_Witness == TimerMounted /\ ~geoSupported /\ DAView = "error" /\ ~pathEffectDue

\* C18: the customer's location is acquired at most once per delivery
\* session: a session started by a click that queried the position makes no
\* further geolocation query when its delivery view mounts or later, and
\* the destination, once set, is not replaced while the view is mounted.
C18_NoQueryAtMount ==
  [][(clickQueried /\ mounted' # mounted /\ mounted' # 0) => mounted' \notin geoPending']_vars
C18_NoLaterQuery ==
  [][(mounted # 0 /\ mounted' = mounted) => geoPending' \subseteq geoPending]_vars
C18_DestinationKept ==
  [][(mounted # 0 /\ mounted' = mounted /\ currentUserLocation # NoLoc)
       => currentUserLocation' = currentUserLocation]_vars
C18_LocationOnce == C18_NoQueryAtMount /\ C18_NoLaterQuery /\ C18_DestinationKept

\* C19: progress is within [0, 100] in every reachable state of both
\* strategies, and in the timer strategy it never decreases while one
\* DeliveryAnimation instance is mounted.
C19_ProgressRange == progress \in 0..100
C19_TimerMonotone ==
  [][(variant = "timer" /\ mounted # 0 /\ mounted' = mounted) => progress' >= progress]_vars
C19_ProgressBounded == []C19_ProgressRange /\ C19_TimerMonotone

C19_Witness ==
  /\ variant = "telemetry" /\ mounted # 0 /\ droneInitialLocation # NoLoc
  /\ dronePosition # NoLoc /\ dronePosition # droneInitialLocation
  /\ distanceMeters(droneInitialLocation, dronePosition) > totalDistance
  /\ progress = 100

\* C20: a transport error or a closure of a telemetry socket only degrades
\* the display: the owner's connection status shows the disconnection
\* (ShoppingCart: the connection error status or a cleared wsRef;
\* DeliveryAnimation: wsConnected false), checkoutStep, progress and
\* dronePosition are unchanged, and no socket is opened in response.
C20_SessionKept ==
  [][\A id \in DOMAIN sockets :
       (CartWsError(id) \/ CartWsClose(id) \/ TelWsError(id) \/ TelWsClose(id))
         => /\ UNCHANGED <<checkoutStep, committedStep, progress, dronePosition>>
            /\ DOMAIN sockets' \subseteq DOMAIN sockets
            /\ \A j \in DOMAIN sockets' : sockets'[j].state # "connecting"
                                             \/ sockets[j].state = "connecting"
            /\ UNCHANGED <<wsRef, animWsRef, telemetryEffectDue>>]_vars
C20_DisconnectShown ==
  [][\A id \in DOMAIN sockets :
       /\ ((CartWsError(id) \/ CartWsClose(id)) /\ id = wsRef)
            => (deliveryStatus' = "Connection error" \/ wsRef' = NoId)
       /\ ((TelWsError(id) \/ TelWsClose(id)) /\ sockets[id].inst = mounted)
            => ~wsConnected']_vars
FinitePt(pt) == IsFinite(pt[1]) /\ IsFinite(pt[2])
FixedPt(pt, steps) == <<Fixed(pt[1], steps), Fixed(pt[2], steps)>>
C21_PlanEndpoints ==
  (planCalled /\ FinitePt(planStart) /\ FinitePt(planEnd) /\ planSteps >= 2)
    => IF planStart # planEnd
       THEN /\ Len(planPoints) \in 2..(planSteps + 2)
            /\ planPoints[1] = FixedPt(planStart, planSteps)
            /\ planPoints[Len(planPoints)] = FixedPt(planEnd, planSteps)
       ELSE /\ Len(planPoints) >= 2
            /\ \A i \in 1..Len(planPoints) : FinitePt(planPoints[i])

C21_Witness ==
  /\ planCalled /\ planStart = STORE_COORDS /\ planEnd = USER_COORDS_FOR_TESTING
  /\ planSteps = CURVE_STEPS /\ Len(planPoints) = CURVE_STEPS + 1
  /\ planPoints[2] # planPoints[1]

\* C22: timer strategy: a tick whose path point is not a pair of finite
\* numbers clears the interval, so that no later tick fires, sets the status
\* to the animation-error text, sets dronePosition to the destination when
\* it is known, and leaves progress and estimatedTime as they were.
AnimationError == <<"Animation Error: Invalid path data">>
C22_Abort ==
  [][\A id \in DOMAIN timers :
       (/\ timers[id].inst = mounted
        /\ timers[id].currentStep < Len(timers[id].path)
        /\ ~IsValidPos(timers[id].path[timers[id].currentStep + 1])
        /\ Tick(id))
         => /\ timers' = Empty /\ intervalRef' = NoId
            /\ statusText' = AnimationError
            /\ dronePosition' = IF currentUserLocation # NoLoc
                                THEN ToPoint(currentUserLocation) ELSE dronePosition
            /\ UNCHANGED <<progress, estimatedTime>>]_vars
C22_ValidationAbort ==
  /\ C22_Abort
  /\ []((TimerMounted /\ statusText = AnimationError) => timers = Empty)

C22_Witness ==
  /\ TimerMounted /\ statusText = AnimationError /\ timers = Empty
  /\ progress \in 1..99 /\ estimatedTime > 0
  /\ dronePosition = ToPoint(USER_COORDS_FOR_TESTING)

\* C23: ordering within a session: a path exists only once the geolocation
\* success callback has set the destination; an animation interval is
\* scheduled only while a path of at least 2 points exists, and the
\* telemetry socket of DeliveryAnimation only with the destination set, so
\* no tick and no telemetry sample is processed while the destination is
\* unknown.
C23_Ordering ==
  mounted # 0
    => /\ deliveryPathPoints # NoLoc
            => (currentUserLocation # NoLoc /\ Len(deliveryPathPoints) >= 2)
       /\ \A i \in DOMAIN timers :
            timers[i].inst = mounted
              => /\ deliveryPathPoints # NoLoc /\ timers[i].path = deliveryPathPoints
                 /\ currentUserLocation # NoLoc /\ timers[i].dest = currentUserLocation
       /\ \A i \in DOMAIN sockets :
            (sockets[i].owner = "anim" /\ sockets[i].inst = mounted)
              => (currentUserLocation # NoLoc /\ sockets[i].cUser = currentUserLocation)

C23_Witness ==
  /\ IntervalStarted /\ intervalRef \in DOMAIN timers /\ ticks = 2
  /\ currentUserLocation = USER_COORDS_FOR_TESTING
  /\ timers[intervalRef].dest = currentUserLocation

\* C24: at most one mission is triggered per order: while one invocation of
\* handleCheckout or handleTestDrone is awaiting the position or the trigger
\* response, a further click starts no other invocation, so at most one
\* trigger request is in flight.
TriggersInFlight == {c \in DOMAIN calls : calls[c].pc = "fetch"}
C24_OneTriggerPerOrder ==
  /\ [][(calls # Empty /\ (handleCheckout \/ handleTestDrone)) => calls' = calls]_vars
  /\ [](Cardinality(TriggersInFlight) <= 1)

\* C25: checkoutStep only follows the cycle cart -> delivery -> completed ->
\* cart: delivery is entered only from cart, completed only from delivery
\* and only by an RTL-active frame, cart only from completed by Place New
\* Order; a checkout promise that resolves late moves neither a completed
\* nor a delivering session.
C25_StepCycle ==
  [][checkoutStep' # checkoutStep
       => \/ checkoutStep = "cart" /\ checkoutStep' = "delivery"
          \/ /\ checkoutStep = "delivery" /\ checkoutStep' = "completed"
             /\ \E id \in DOMAIN sockets, f \in Frames :
                  f.valid /\ f.rtl = "active" /\ CartWsMessage(id, f)
          \/ checkoutStep = "completed" /\ checkoutStep' = "cart" /\ PlaceNewOrder]_vars

\* The destination the delivery view shows and tracks, on the 0.005 degree
\* grid (the timer variant holds it on the 0.01 degree grid).
DestinationShown ==
  IF variant = "timer" /\ currentUserLocation # NoLoc THEN Fine(currentUserLocation)
  ELSE currentUserLocation

\* C26: when the delivery view of a session sets its destination, it is the
\* coordinate that was sent as target_lat / target_lon in the trigger request
\* of that session.
C26_DestinationIsTarget ==
  [][(/\ sentTarget # NoLoc /\ mounted' # 0
      /\ currentUserLocation' # currentUserLocation /\ currentUserLocation' # NoLoc)
       => DestinationShown' = sentTarget]_vars

\* C27: telemetry variant: whenever the socket held in wsRef is open, and
\* no error or close event has been delivered for it, wsConnected is true,
\* whatever events of sockets closed earlier by the effect cleanup arrive.
CurrentSocketOpen ==
  /\ variant = "telemetry" /\ mounted # 0
  /\ animWsRef \in DOMAIN sockets
  /\ sockets[animWsRef].inst = mounted /\ sockets[animWsRef].state = "open"
C27_IndicatorAgrees == CurrentSocketOpen => wsConnected

\* C28: telemetry variant: the socket opened when the destination becomes
\* known stays the subscription of the session: while the view is mounted,
\* no step (in particular none that follows the first frame) closes it or
\* replaces it by another socket.
C28_SocketKept ==
  [][(variant = "telemetry" /\ mounted # 0 /\ mounted' = mounted /\ animWsRef # NoId)
       => /\ animWsRef' = animWsRef
          /\ \A i \in DOMAIN sockets' \ DOMAIN sockets : sockets'[i].owner # "anim"
          /\ animWsRef \in DOMAIN sockets'
               => sockets'[animWsRef].state \notin {"closing", "failing"}]_vars

\* C29: for every product, the quantity shown on its ProductCard equals the
\* quantity of that product in the Marketplace cart (0 when absent), after
\* any sequence of clicks on the cards and on the items of the cart view.
C29_CardShowsCartQuantity ==
  \A p \in ProductIds : quantity[p] = CartQuantity(cartItems, p)

\* C30: after any sequence of addToCart(productId, +1 or -1) calls every
\* cart item has quantity >= 1 and no two items share an id; decrementing an
\* item of quantity 1 removes it; a call for an id that is not in the
\* catalog, and a decrement of a product that is not in the cart, leave the
\* cart unchanged.
C30_CartInvariant ==
  /\ \A i \in 1..Len(cartItems) : cartItems[i].quantity >= 1
  /\ \A i, j \in 1..Len(cartItems) : cartItems[i].id = cartItems[j].id => i = j
  /\ \A i \in 1..Len(cartItems) :
       cartItems[i].quantity = 1
         => LET after == addToCart(cartItems, cartItems[i].id, 0 - 1)
            IN /\ Len(after) = Len(cartItems) - 1
               /\ \A k \in 1..Len(after) : after[k].id # cartItems[i].id
  /\ \A q \in {1, 0 - 1} : addToCart(cartItems, UnknownId, q) = cartItems
  /\ \A p \in ProductIds : ~InCart(p) => addToCart(cartItems, p, 0 - 1) = cartItems

C30_Witness ==
  /\ Len(cartItems) = 2 /\ cartItems[1].id = 3 /\ cartItems[1].quantity = 1
  /\ cartItems[2].id = 1 /\ cartItems[2].quantity = MaxQty

====
